---- MODULE Spec2Model ----
(***************************************************************************)
(* Model of src/App.tsx: the business-card scanner component.              *)
(*                                                                         *)
(* State: the React state cells of App (processedText, hasPermissions,     *)
(* isProcessingText, cardIsFound, contactInfo), the rear camera device     *)
(* delivered by useCameraDevices, the position of the permission effect,   *)
(* and the in-flight acquisition / interpretation pipelines started by     *)
(* pickAndRecognize and captureAndRecognize.                               *)
(*                                                                         *)
(* Granularity: one action per JavaScript job up to its next await, except *)
(* that the continuation after a successful interpretImage is split into   *)
(* one step per state-setter call (setIsProcessingText, then the setter    *)
(* pair of validateCard), because a render may happen after each setter    *)
(* call made outside a React event handler.  While such a continuation is  *)
(* running no other job can start (run to completion).                     *)
(***************************************************************************)
EXTENDS Naturals, FiniteSets, Sequences

\* Number of pipelines that can be in flight together in the model.
MaxPipes == 2

Pipes == 1..MaxPipes

\* ------------------------------------------------------------------ data

InitialText == "Scan a Card to see\nContact info here"

NotFoundText == "No valid Business Card found, please try again!!"

\* Status values a permission request can resolve to.
Statuses == {"granted", "denied", "restricted", "not-determined"}

\* A local const of the permission effect that holds no value (not yet
\* assigned, or the effect has returned).
Unset == "unset"

\* Field names of the result mappings drawn as inputs, and the value
\* sequence each carries: one field with a value, one with none.
FieldNames == {"email", "phone"}

FieldValue == [email |-> <<"a@x.com", "b@x.com">>, phone |-> << >>]

\* The order in which the service lists the fields of an object; Object.keys
\* returns the keys of an object in the order they were inserted.
FieldOrder == <<"email", "phone">>

\* The empty object {}.
EmptyMapping == [k \in {} |-> << >>]

\* The objects interpretImage can return as result.data: a mapping from any
\* set of the field names to value sequences, {} included.
Mappings == {[k \in D |-> FieldValue[k]] : D \in SUBSET FieldNames}

\* What interpretImage resolves to: a response whose data is absent, or a
\* response carrying a mapping.
Responses ==
    {[hasData |-> FALSE, data |-> EmptyMapping]}
        \cup {[hasData |-> TRUE, data |-> m] : m \in Mappings}

NoResponse == [hasData |-> FALSE, data |-> EmptyMapping]

\* result?.data ?? {}
Payload(result) == IF result.hasData THEN result.data ELSE EmptyMapping

\* Object.keys(result)
Keys(result) == DOMAIN result

VARIABLES
    processedText,        \* useState<string>
    hasPermissions,       \* useState<boolean>
    isProcessingText,     \* useState<boolean>
    cardIsFound,          \* useState<boolean>
    contactInfo,          \* useState<object>
    devices,              \* useCameraDevices(): "loading", "none" or "back"
    gatePc,               \* position of the permission effect
    cameraPermission,     \* local const of the permission effect, across its await
    alert,                \* the Alert.alert dialog
    pc,                   \* pc[p]: position of pipeline p
    res,                  \* res[p]: what interpretImage resolved to, for p
    logged,               \* the call whose error console.log printed last
    discarded,            \* history: the Found/NotFound display a trigger left
    lastResolved          \* history: the interpretImage call that resolved last

vars ==
    <<processedText, hasPermissions, isProcessingText, cardIsFound,
      contactInfo, devices, gatePc, cameraPermission, alert, pc, res, logged,
      discarded, lastResolved>>

\* ---------------------------------------------------------------- render

\* device && hasPermissions: the camera view and the capture Pressable are
\* rendered, otherwise the "No Camera Found" text.
device == devices = "back"

\* CaptureAvailable with a slip: the permission flag is not consulted.
CaptureAvailable_DeviceOnly(d, h) == d

\* The condition of the capture area, on the device and the permission flag.
CaptureAvailable(d, h) == d /\ h

CaptureOffered == CaptureAvailable(device, hasPermissions)

\* A value of the display area: the busy indicator, the contact rows of
\* contactInfo, or a message text.  view "none" is used by the history
\* variable only.
Display(view, info, text) == [view |-> view, info |-> info, text |-> text]

NoDisplay == Display("none", EmptyMapping, "")

\* The conditional at the bottom of the render function.
Displayed ==
    IF isProcessingText
    THEN Display("busy", EmptyMapping, "")
    ELSE IF cardIsFound
         THEN Display("found", contactInfo, "")
         ELSE Display("message", EmptyMapping, processedText)

\* What validateCard(result) puts on display: the contact list of result
\* when it has a key, the NotFound message when it has none.
Outcome(result) ==
    IF Keys(result) # {}
    THEN Display("found", result, "")
    ELSE Display("message", EmptyMapping, NotFoundText)

\* DisplayArea with a slip: the cardIsFound conditional is not nested in the
\* isProcessingText one.
DisplayArea_Unnested ==
    (IF isProcessingText THEN {"ActivityIndicator"} ELSE {})
        \cup (IF cardIsFound THEN {"ContactRows"} ELSE {"ProcessedText"})

\* The elements the conditional at the bottom of the render function
\* renders: the busy indicator, the contact rows or the message text.
DisplayArea ==
    IF isProcessingText
    THEN {"ActivityIndicator"}
    ELSE IF cardIsFound THEN {"ContactRows"} ELSE {"ProcessedText"}

\* The elements the capture conditional renders for a device flag d and a
\* permission flag h: the camera view with the capture Pressable, or the
\* "No Camera Found" text.
CaptureArea(d, h) ==
    IF CaptureAvailable(d, h)
    THEN {"Camera", "CaptureButton"}
    ELSE {"NoCameraFound"}

\* Object.keys(info): the keys info has, in their order.
ObjectKeys(info) ==
    LET has(k) == k \in DOMAIN info
    IN  SelectSeq(FieldOrder, has)

\* ContactRows with a slip: no fallback for an empty value sequence.
ContactRows_NoFallback(info) ==
    [i \in 1..Len(ObjectKeys(info)) |->
        LET key == ObjectKeys(info)[i]
        IN  [key |-> key, values |-> info[key]]]

\* The rows of the contact list: for every key of Object.keys(info), in
\* turn, one row with the key and one Text per value, or the single Text
\* "Undefined" when the value sequence has no length.
ContactRows(info) ==
    [i \in 1..Len(ObjectKeys(info)) |->
        LET key == ObjectKeys(info)[i]
        IN  [key |-> key,
             values |-> IF Len(info[key]) > 0
                        THEN info[key]
                        ELSE <<"Undefined">>]]

\* Everything on screen for device flag d, permission flag h and alert
\* state a, the display area being that of the current state: the title and
\* the gallery Pressable always, and the alert dialog while it is open.
Screen(d, h, a) ==
    {"Title", "GalleryButton"}
        \cup CaptureArea(d, h)
        \cup DisplayArea
        \cup (IF a = "shown" THEN {"Alert"} ELSE {})

\* What the current state renders.
Rendered == Screen(device, hasPermissions, alert)

\* A Found contact list or the NotFound message is on display.
ShowsResult ==
    /\ ~isProcessingText
    /\ cardIsFound \/ processedText = NotFoundText

\* ----------------------------------------------------------------- state

PendingPcs == {"picker", "takePhoto", "interpretPick", "interpretCapture"}

\* Positions inside the synchronous continuation that follows a resolved
\* interpretImage call: between two setter calls.
ContinuationPcs == {"validateCard", "setCardIsFound"}

PcValues == {"idle"} \cup PendingPcs \cup ContinuationPcs

\* No pipeline: the value of lastResolved.newest when the pipeline triggered
\* last is not in flight.
NoPipe == 0

\* History before any interpretImage call has resolved.  The order of the
\* triggers is recorded where ordered is TRUE.
NoneResolved(ordered) ==
    [some |-> FALSE, data |-> EmptyMapping, ordered |-> ordered,
     newest |-> NoPipe, newestResolved |-> FALSE, late |-> FALSE]

TypeOK ==
    /\ processedText \in {InitialText, NotFoundText}
    /\ hasPermissions \in BOOLEAN
    /\ isProcessingText \in BOOLEAN
    /\ cardIsFound \in BOOLEAN
    /\ contactInfo \in Mappings
    /\ devices \in {"loading", "none", "back"}
    /\ gatePc \in {"requestCamera", "requestMicrophone", "done"}
    /\ cameraPermission \in Statuses \cup {Unset}
    /\ alert \in {"none", "shown", "settings", "cancel"}
    /\ pc \in [Pipes -> PcValues]
    /\ res \in [Pipes -> Responses]
    /\ logged \in {"none", "picker", "takePhoto", "interpretImage"}
    /\ lastResolved \in [some : BOOLEAN, data : Mappings,
                          ordered : BOOLEAN, newest : Pipes \cup {NoPipe},
                          newestResolved : BOOLEAN, late : BOOLEAN]

\* The state after the first render of App.
Init ==
    /\ processedText = InitialText
    /\ hasPermissions = FALSE
    /\ isProcessingText = FALSE
    /\ cardIsFound = FALSE
    /\ contactInfo = EmptyMapping
    /\ devices = "loading"
    /\ gatePc = "requestCamera"
    /\ cameraPermission = Unset
    /\ alert = "none"
    /\ pc = [p \in Pipes |-> "idle"]
    /\ res = [p \in Pipes |-> NoResponse]
    /\ logged = "none"
    /\ discarded = NoDisplay
    /\ lastResolved = NoneResolved(FALSE)

\* A synchronous continuation is between two of its setter calls: no other
\* JavaScript job runs until it has finished.
Running == \E p \in Pipes : pc[p] \in ContinuationPcs

\* No acquisition or interpretation call is pending and no continuation runs.
AllIdle == \A p \in Pipes : pc[p] = "idle"

\* The slot a newly triggered pipeline takes: the lowest idle one.
IsFreePipe(p) ==
    /\ pc[p] = "idle"
    /\ \A q \in Pipes : pc[q] = "idle" => p <= q

\* History: a trigger made while a Found list or the NotFound message is on
\* display records that display.
NoteTrigger ==
    discarded' = IF ShowsResult THEN Displayed ELSE discarded

\* History: pipeline p is triggered.  It is recorded as the newest one when
\* another pipeline is in flight, which it may overtake.
NoteNewest(p) ==
    lastResolved' =
        [lastResolved EXCEPT
            !.newest = IF /\ lastResolved.ordered
                          /\ \E q \in Pipes \ {p} : pc[q] # "idle"
                       THEN p ELSE NoPipe,
            !.newestResolved = FALSE,
            !.late = FALSE]

\* History: the interpretImage call of pipeline p resolved with result.  The
\* call is late when the pipeline triggered last has resolved before it; the
\* newest pipeline is recorded as resolved when another one is in flight.
NoteResolved(p, result) ==
    lastResolved' =
        IF lastResolved.newest = p
        THEN [lastResolved EXCEPT
                !.some = TRUE,
                !.data = Payload(result),
                !.newest = NoPipe,
                !.newestResolved = \E q \in Pipes \ {p} : pc[q] # "idle"]
        ELSE [lastResolved EXCEPT
                !.some = TRUE,
                !.data = Payload(result),
                !.late = lastResolved.newestResolved]

\* History: pipeline p ended in its catch.
NoteRejected(p) ==
    lastResolved' =
        IF lastResolved.newest = p
        THEN [lastResolved EXCEPT !.newest = NoPipe]
        ELSE lastResolved

stateCells == <<processedText, hasPermissions, isProcessingText, cardIsFound, contactInfo>>

gateVars == <<gatePc, cameraPermission, alert>>

\* ------------------------------------------------------- device, gate

\* useCameraDevices() delivers the device list once: a rear device or none.
devicesLoaded(d) ==
    /\ ~Running
    /\ devices = "loading"
    /\ devices' = d
    /\ UNCHANGED <<stateCells, gateVars, pc, res, logged, discarded,
                   lastResolved>>

\* await Camera.requestCameraPermission() resolves.
requestCameraPermission(s) ==
    /\ ~Running
    /\ gatePc = "requestCamera"
    /\ cameraPermission' = s
    /\ gatePc' = "requestMicrophone"
    /\ UNCHANGED <<stateCells, devices, alert, pc, res, logged, discarded,
                   lastResolved>>

\* The test of the permission effect on its two local consts.
PermissionDenied(camera, microphone) ==
    camera = "denied" \/ microphone = "denied"

\* await Camera.requestMicrophonePermission() resolves with s, and the
\* effect runs to its end: the alert and setHasPermissions(false), or
\* setHasPermissions(true).  The effect's local consts are gone after it.
requestMicrophonePermission(s) ==
    /\ ~Running
    /\ gatePc = "requestMicrophone"
    /\ IF PermissionDenied(cameraPermission, s)
       THEN alert' = "shown" /\ hasPermissions' = FALSE
       ELSE alert' = alert /\ hasPermissions' = TRUE
    /\ gatePc' = "done"
    /\ cameraPermission' = Unset
    /\ UNCHANGED <<processedText, isProcessingText, cardIsFound, contactInfo,
                   devices, pc, res, logged, discarded,
                   lastResolved>>

\* alertGoToSettings with a slip: coming back from the settings runs the
\* permission requests again.
alertGoToSettings_Retries ==
    /\ ~Running
    /\ alert = "shown"
    /\ alert' = "none"
    /\ gatePc' = "requestCamera"
    /\ UNCHANGED <<stateCells, devices, cameraPermission, pc, res,
                   logged, discarded,
                   lastResolved>>

\* The alert's "Go to Settings" button: Linking.openSettings().
alertGoToSettings ==
    /\ ~Running
    /\ alert = "shown"
    /\ alert' = "settings"
    /\ UNCHANGED <<stateCells, devices, gatePc, cameraPermission, pc, res,
                   logged, discarded,
                   lastResolved>>

\* The alert's "Cancel" button.
alertCancel ==
    /\ ~Running
    /\ alert = "shown"
    /\ alert' = "cancel"
    /\ UNCHANGED <<stateCells, devices, gatePc, cameraPermission, pc, res,
                   logged, discarded,
                   lastResolved>>

\* ------------------------------------------------------------ validateCard

\* HasKeys with a slip: looks for a non-empty value sequence instead of a key.
HasKeys_AnyValue(result) == \E k \in Keys(result) : Len(result[k]) > 0

\* keys?.length
HasKeys(result) == Cardinality(Keys(result)) > 0

\* StoredContactInfo with a slip: the result is merged into the contact
\* info already held ({...contactInfo, ...result}).
StoredContactInfo_Merged(result) ==
    [k \in Keys(contactInfo) \cup Keys(result) |->
        IF k \in Keys(result) THEN result[k] ELSE contactInfo[k]]

\* The argument of setContactInfo.
StoredContactInfo(result) == result

\* validateCard with a slip: the first setter call is the one of cardIsFound
\* and contactInfo is not written.
validateCard_FlagFirst(p) ==
    /\ pc[p] = "validateCard"
    /\ cardIsFound' = HasKeys(Payload(res[p]))
    /\ IF HasKeys(Payload(res[p]))
       THEN processedText' = processedText
       ELSE processedText' = NotFoundText
    /\ pc' = [pc EXCEPT ![p] = "setCardIsFound"]
    /\ UNCHANGED <<hasPermissions, isProcessingText, contactInfo, devices,
                   gateVars, res, logged, discarded,
                   lastResolved>>

\* validateCard(result?.data ?? {}) up to and including its first setter
\* call: setContactInfo(result), or setProcessedText(...).
validateCard(p) ==
    /\ pc[p] = "validateCard"
    /\ IF HasKeys(Payload(res[p]))
       THEN /\ contactInfo' = StoredContactInfo(Payload(res[p]))
            /\ processedText' = processedText
       ELSE /\ processedText' = NotFoundText
            /\ contactInfo' = contactInfo
    /\ pc' = [pc EXCEPT ![p] = "setCardIsFound"]
    /\ UNCHANGED <<hasPermissions, isProcessingText, cardIsFound, devices,
                   gateVars, res, logged, discarded,
                   lastResolved>>

\* setCardIsFound with a slip: the branch without keys does not call
\* setCardIsFound(false).
setCardIsFound_OnlyTrue(p) ==
    /\ pc[p] = "setCardIsFound"
    /\ cardIsFound' = (HasKeys(Payload(res[p])) \/ cardIsFound)
    /\ pc' = [pc EXCEPT ![p] = "idle"]
    /\ res' = [res EXCEPT ![p] = NoResponse]
    /\ discarded' = NoDisplay
    /\ UNCHANGED <<processedText, hasPermissions, isProcessingText,
                   contactInfo, devices, gateVars, logged,
                   lastResolved>>

\* The second setter call of validateCard: setCardIsFound(true) in the
\* branch with keys, setCardIsFound(false) in the other.  The continuation
\* ends here.
setCardIsFound(p) ==
    /\ pc[p] = "setCardIsFound"
    /\ cardIsFound' = HasKeys(Payload(res[p]))
    /\ pc' = [pc EXCEPT ![p] = "idle"]
    /\ res' = [res EXCEPT ![p] = NoResponse]
    /\ discarded' = NoDisplay
    /\ UNCHANGED <<processedText, hasPermissions, isProcessingText,
                   contactInfo, devices, gateVars, logged,
                   lastResolved>>

\* The call whose rejection a catch receives when the pipeline is at
\* position at: what console.log('err:', err) prints.
Rejected(at) ==
    IF at \in {"interpretPick", "interpretCapture"} THEN "interpretImage" ELSE at

\* -------------------------------------------------------- pickAndRecognize

\* pickAndRecognize with a slip: the trigger also resets the result display.
pickAndRecognize_Resets(p) ==
    /\ ~Running
    /\ IsFreePipe(p)
    /\ pc' = [pc EXCEPT ![p] = "picker"]
    /\ cardIsFound' = FALSE
    /\ processedText' = InitialText
    /\ NoteTrigger
    /\ NoteNewest(p)
    /\ UNCHANGED <<hasPermissions, isProcessingText, contactInfo, devices,
                   gateVars, res, logged>>

\* The gallery Pressable's onPress: ImagePicker.openPicker({cropping: false})
\* is called and the handler returns; no state cell is written.
pickAndRecognize(p) ==
    /\ ~Running
    /\ IsFreePipe(p)
    /\ pc' = [pc EXCEPT ![p] = "picker"]
    /\ NoteTrigger
    /\ NoteNewest(p)
    /\ UNCHANGED <<stateCells, devices, gateVars, res, logged>>

\* The picker resolved with an image: the .then callback runs
\* setIsProcessingText(true) and calls interpretImage(res).
pickThen(p) ==
    /\ ~Running
    /\ pc[p] = "picker"
    /\ isProcessingText' = TRUE
    /\ pc' = [pc EXCEPT ![p] = "interpretPick"]
    /\ UNCHANGED <<processedText, hasPermissions, cardIsFound, contactInfo,
                   devices, gateVars, res, logged, discarded,
                   lastResolved>>

\* pickInterpreted with a slip: the result of a scan that a newer scan has
\* overtaken is dropped.
pickInterpreted_NewestOnly(p, result) ==
    /\ ~Running
    /\ pc[p] = "interpretPick"
    /\ isProcessingText' = FALSE
    /\ IF lastResolved.newest # p /\ lastResolved.newestResolved
       THEN /\ pc' = [pc EXCEPT ![p] = "idle"]
            /\ res' = res
       ELSE /\ pc' = [pc EXCEPT ![p] = "validateCard"]
            /\ res' = [res EXCEPT ![p] = result]
    /\ NoteResolved(p, result)
    /\ UNCHANGED <<processedText, hasPermissions, cardIsFound, contactInfo,
                   devices, gateVars, logged, discarded>>

\* interpretImage resolved inside the .then callback:
\* setIsProcessingText(false); validateCard is called next.
pickInterpreted(p, result) ==
    /\ ~Running
    /\ pc[p] = "interpretPick"
    /\ isProcessingText' = FALSE
    /\ res' = [res EXCEPT ![p] = result]
    /\ pc' = [pc EXCEPT ![p] = "validateCard"]
    /\ NoteResolved(p, result)
    /\ UNCHANGED <<processedText, hasPermissions, cardIsFound, contactInfo,
                   devices, gateVars, logged, discarded>>

\* pickCatch with a slip: the handler also clears cardIsFound.
pickCatch_ClearsFound(p) ==
    /\ ~Running
    /\ pc[p] \in {"picker", "interpretPick"}
    /\ logged' = Rejected(pc[p])
    /\ isProcessingText' = FALSE
    /\ cardIsFound' = FALSE
    /\ pc' = [pc EXCEPT ![p] = "idle"]
    /\ NoteRejected(p)
    /\ UNCHANGED <<processedText, hasPermissions, contactInfo, devices,
                   gateVars, res, discarded>>

\* The .catch callback: the picker was cancelled or failed, or interpretImage
\* rejected inside the .then callback.  console.log, setIsProcessingText(false).
pickCatch(p) ==
    /\ ~Running
    /\ pc[p] \in {"picker", "interpretPick"}
    /\ logged' = Rejected(pc[p])
    /\ isProcessingText' = FALSE
    /\ pc' = [pc EXCEPT ![p] = "idle"]
    /\ NoteRejected(p)
    /\ UNCHANGED <<processedText, hasPermissions, cardIsFound, contactInfo,
                   devices, gateVars, res, discarded>>

\* ----------------------------------------------------- captureAndRecognize

\* captureAndRecognize with a slip: setIsProcessingText(true) is missing.
captureAndRecognize_NoBusy(p) ==
    /\ ~Running
    /\ CaptureOffered
    /\ IsFreePipe(p)
    /\ pc' = [pc EXCEPT ![p] = "takePhoto"]
    /\ NoteTrigger
    /\ NoteNewest(p)
    /\ UNCHANGED <<stateCells, devices, gateVars, res, logged>>

\* The capture Pressable's onPress (rendered only when device &&
\* hasPermissions): setIsProcessingText(true), then camera.takePhoto(...).
captureAndRecognize(p) ==
    /\ ~Running
    /\ CaptureOffered
    /\ IsFreePipe(p)
    /\ isProcessingText' = TRUE
    /\ pc' = [pc EXCEPT ![p] = "takePhoto"]
    /\ NoteTrigger
    /\ NoteNewest(p)
    /\ UNCHANGED <<processedText, hasPermissions, cardIsFound, contactInfo,
                   devices, gateVars, res, logged>>

\* takePhoto resolved: the path is normalised and interpretImage is called.
captureTaken(p) ==
    /\ ~Running
    /\ pc[p] = "takePhoto"
    /\ pc' = [pc EXCEPT ![p] = "interpretCapture"]
    /\ UNCHANGED <<stateCells, devices, gateVars, res, logged, discarded,
                   lastResolved>>

\* interpretImage resolved: setIsProcessingText(false); validateCard is
\* called next.
captureInterpreted(p, result) ==
    /\ ~Running
    /\ pc[p] = "interpretCapture"
    /\ isProcessingText' = FALSE
    /\ res' = [res EXCEPT ![p] = result]
    /\ pc' = [pc EXCEPT ![p] = "validateCard"]
    /\ NoteResolved(p, result)
    /\ UNCHANGED <<processedText, hasPermissions, cardIsFound, contactInfo,
                   devices, gateVars, logged, discarded>>

\* captureCatch with a slip: setIsProcessingText(false) is missing.
captureCatch_KeepsBusy(p) ==
    /\ ~Running
    /\ pc[p] \in {"takePhoto", "interpretCapture"}
    /\ logged' = Rejected(pc[p])
    /\ pc' = [pc EXCEPT ![p] = "idle"]
    /\ NoteRejected(p)
    /\ UNCHANGED <<stateCells, devices, gateVars, res, discarded>>

\* captureCatch with a slip: a failure is treated like an empty result.
captureCatch_NotFound(p) ==
    /\ ~Running
    /\ pc[p] \in {"takePhoto", "interpretCapture"}
    /\ logged' = Rejected(pc[p])
    /\ isProcessingText' = FALSE
    /\ processedText' = NotFoundText
    /\ cardIsFound' = FALSE
    /\ pc' = [pc EXCEPT ![p] = "idle"]
    /\ NoteRejected(p)
    /\ UNCHANGED <<hasPermissions, contactInfo, devices, gateVars, res,
                   discarded>>

\* The catch block: takePhoto or interpretImage rejected.  console.log,
\* setIsProcessingText(false).
captureCatch(p) ==
    /\ ~Running
    /\ pc[p] \in {"takePhoto", "interpretCapture"}
    /\ logged' = Rejected(pc[p])
    /\ isProcessingText' = FALSE
    /\ pc' = [pc EXCEPT ![p] = "idle"]
    /\ NoteRejected(p)
    /\ UNCHANGED <<processedText, hasPermissions, cardIsFound, contactInfo,
                   devices, gateVars, res, discarded>>

\* ------------------------------------------------------------ specification

\* A pending call of pipeline p settles, or p's continuation takes a step.
Advance(p) ==
    \/ pickThen(p)
    \/ pickCatch(p)
    \/ captureTaken(p)
    \/ captureCatch(p)
    \/ \E result \in Responses : pickInterpreted(p, result)
    \/ \E result \in Responses : captureInterpreted(p, result)
    \/ validateCard(p)
    \/ setCardIsFound(p)

Next ==
    \/ \E d \in {"none", "back"} : devicesLoaded(d)
    \/ \E s \in Statuses : requestCameraPermission(s)
    \/ \E s \in Statuses : requestMicrophonePermission(s)
    \/ alertGoToSettings
    \/ alertCancel
    \/ \E p \in Pipes : pickAndRecognize(p)
    \/ \E p \in Pipes : captureAndRecognize(p)
    \/ \E p \in Pipes : Advance(p)

Spec == Init /\ [][Next]_vars

\* The same state, the order of the triggers being recorded in the history.
OrderInit ==
    /\ processedText = InitialText
    /\ hasPermissions = FALSE
    /\ isProcessingText = FALSE
    /\ cardIsFound = FALSE
    /\ contactInfo = EmptyMapping
    /\ devices = "loading"
    /\ gatePc = "requestCamera"
    /\ cameraPermission = Unset
    /\ alert = "none"
    /\ pc = [p \in Pipes |-> "idle"]
    /\ res = [p \in Pipes |-> NoResponse]
    /\ logged = "none"
    /\ discarded = NoDisplay
    /\ lastResolved = NoneResolved(TRUE)

OrderSpec == OrderInit /\ [][Next]_vars

\* Every pending picker, takePhoto and interpretImage call eventually
\* resolves or rejects, and a continuation runs to its end.
Fairness == \A p \in Pipes : WF_vars(Advance(p))

LiveSpec == Spec /\ Fairness

\* ------------------------------------------------------------------ claims

\* The result cells: what the display area shows when not Processing.
resultCells == <<cardIsFound, contactInfo, processedText>>

\* The pipelines whose interpretImage call is pending.
Interpreting == {p \in Pipes : pc[p] \in {"interpretPick", "interpretCapture"}}

C2_LeavesProcessing == isProcessingText ~> ~isProcessingText

\* Processing with two overlapping pipelines, one of each producer, both
\* waiting for interpretImage.
C2_Witness ==
    /\ isProcessingText
    /\ \E p, q \in Pipes : pc[p] = "interpretPick" /\ pc[q] = "interpretCapture"

\* C3 (as stated): hasPermissions is false until the effect has derived it,
\* and the derived value is true exactly if both requests resolved to
\* "granted".
C3_UsableIffBothGranted ==
    [][/\ gatePc # "requestMicrophone" => hasPermissions' = hasPermissions
       /\ \A s \in Statuses :
             requestMicrophonePermission(s)
                => (hasPermissions' <=>
                       (cameraPermission = "granted" /\ s = "granted"))]_vars

\* C4 (as stated): at most one picker, takePhoto or interpretImage call is
\* pending at any time.
C4_AtMostOnePending ==
    Cardinality({p \in Pipes : pc[p] \in PendingPcs}) <= 1

\* C5 (as stated): the state is Processing whenever a takePhoto or an
\* interpretImage call is pending.
C5_BusyWhileInFlight ==
    \A p \in Pipes :
        pc[p] \in {"takePhoto", "interpretPick", "interpretCapture"}
            => isProcessingText

\* C6: when validateCard has run on a mapping, cardIsFound is true exactly
\* if the mapping has a key, whatever its value sequences hold; with a key,
\* contactInfo is the mapping itself, and without one contactInfo is left
\* alone and the NotFound message is set.
C6_FoundIffHasKey ==
    [][\A p \in Pipes :
          (pc[p] = "setCardIsFound" /\ pc'[p] = "idle")
             => /\ cardIsFound' <=> (Keys(Payload(res[p])) # {})
                /\ cardIsFound' => contactInfo' = Payload(res[p])
                /\ ~cardIsFound' => processedText' = NotFoundText]_vars

\* validateCard has classified a mapping whose only value sequence is empty
\* as Found.
C6_Witness ==
    /\ AllIdle
    /\ cardIsFound
    /\ contactInfo = [k \in {"phone"} |-> << >>]

\* The NotFound state: the fixed message with cardIsFound false.
NotFoundState == ~cardIsFound /\ processedText = NotFoundText

\* C7: a rejected interpretImage call, in either pipeline, clears
\* isProcessingText and leaves cardIsFound, contactInfo and processedText
\* alone; they are written only by the continuation of a resolved call, and
\* the NotFound state is entered only by the continuation of a call that
\* resolved with an empty mapping.
C7_InterpretFailureChangesNothing ==
    [][/\ \A p \in Pipes :
             (p \in Interpreting /\ pc'[p] = "idle")
                => ~isProcessingText' /\ UNCHANGED resultCells
       /\ resultCells' # resultCells
             => \E p \in Pipes : pc[p] \in ContinuationPcs
       /\ (~NotFoundState /\ NotFoundState')
             => \E p \in Pipes :
                   pc[p] \in ContinuationPcs /\ Keys(Payload(res[p])) = {}]_vars

\* An attempt triggered while a contact list was displayed ended with a
\* rejected interpretImage call, and the contact list is displayed again.
C7_Witness ==
    /\ AllIdle
    /\ logged = "interpretImage"
    /\ discarded.view = "found"
    /\ Displayed = discarded

\* C8: the gallery trigger writes no state cell, and a cancelled or failed
\* picker clears isProcessingText, leaves cardIsFound, contactInfo and
\* processedText alone and starts no interpretImage call.
C8_PickerCancelRestores ==
    [][\A p \in Pipes :
          /\ (pc[p] = "idle" /\ pc'[p] = "picker")
                => UNCHANGED <<isProcessingText, resultCells>>
          /\ (pc[p] = "picker" /\ pc'[p] = "idle")
                => /\ ~isProcessingText'
                   /\ UNCHANGED resultCells
                   /\ Interpreting' = Interpreting]_vars

\* A gallery attempt triggered while a contact list was displayed ended
\* with the picker cancelled, and the contact list is displayed again.
C8_Witness ==
    /\ AllIdle
    /\ logged = "picker"
    /\ discarded.view = "found"
    /\ Displayed = discarded

\* C9: from the moment validateCard stores a result with keys, and when the
\* scan then ends in Found, contactInfo is exactly the mapping that scan's
\* interpretImage call returned: the same keys, each with the same values.
C9_ReplacedWholesale ==
    [][\A p \in Pipes :
          (pc[p] \in ContinuationPcs /\ pc'[p] # pc[p]
             /\ Keys(Payload(res[p])) # {})
             => /\ Keys(contactInfo') = Keys(Payload(res[p]))
                /\ \A k \in Keys(contactInfo') :
                      contactInfo'[k] = Payload(res[p])[k]]_vars

\* A scan has stored its one-key result after an earlier Found scan
\* (cardIsFound is still true from it) and an earlier NotFound scan (its
\* message is set).
C9_Witness ==
    \E p \in Pipes :
        /\ pc[p] = "setCardIsFound"
        /\ Cardinality(Keys(Payload(res[p]))) = 1
        /\ contactInfo = Payload(res[p])
        /\ cardIsFound
        /\ processedText = NotFoundText

\* C10 (as stated): after a trigger made while a Found list or the NotFound
\* message was displayed, that display is not shown again: not when the
\* attempts made since have ended, whatever their outcome.
C10_NeverShownAgain ==
    (AllIdle /\ discarded.view # "none") => Displayed # discarded

\* C10 (amended): a trigger made while a Found list or the NotFound message
\* is displayed discards that display only if an interpretImage call
\* succeeds afterwards; when the attempts made since have all ended in a
\* cancellation or a failure, that same display is shown again.
C10_ShownAgainUnlessReplaced ==
    (AllIdle /\ discarded.view # "none") => Displayed = discarded

\* The NotFound message is displayed again after a capture attempt,
\* triggered while it was displayed, failed at takePhoto.
C10_Witness ==
    /\ AllIdle
    /\ logged = "takePhoto"
    /\ discarded.view = "message"
    /\ Displayed = discarded

\* C11: when the continuation of a resolved interpretImage call whose data
\* is absent, or is the empty mapping, ends, the state is NotFound:
\* isProcessingText and cardIsFound are false and processedText is the fixed
\* message; isProcessingText is false from the moment the call resolved.
C11_EmptyPayloadEndsNotFound ==
    [][\A p \in Pipes :
          /\ (pc[p] = "setCardIsFound" /\ pc'[p] = "idle"
                /\ Keys(Payload(res[p])) = {})
                => /\ ~isProcessingText'
                   /\ ~cardIsFound'
                   /\ processedText' = NotFoundText
          /\ (p \in Interpreting /\ pc'[p] = "validateCard"
                /\ Keys(Payload(res'[p])) = {})
                => ~isProcessingText']_vars

\* A response without data is being classified after an earlier Found scan:
\* the NotFound message is stored and cardIsFound is about to be cleared.
C11_Witness ==
    \E p \in Pipes :
        /\ pc[p] = "setCardIsFound"
        /\ ~res[p].hasData
        /\ processedText = NotFoundText
        /\ cardIsFound
        /\ ~isProcessingText

\* C12: the capture control is rendered, and captureAndRecognize is
\* invoked, only in states with a rear device and hasPermissions true; after
\* a denied permission (both denied included), or without a rear device, the
\* capture control is not rendered and "No Camera Found" is; the gallery
\* control is rendered in every state and its handler can always start.
C12_CaptureOnlyWhenAvailable ==
    /\ [](/\ "CaptureButton" \in Rendered => (device /\ hasPermissions)
          /\ (alert # "none" \/ ~device)
                => /\ "CaptureButton" \notin Rendered
                   /\ "NoCameraFound" \in Rendered
          /\ "GalleryButton" \in Rendered
          /\ (~Running /\ \E p \in Pipes : pc[p] = "idle")
                => ENABLED (\E p \in Pipes : pickAndRecognize(p)))
    /\ [][/\ (\E p \in Pipes : pc[p] = "idle" /\ pc'[p] = "takePhoto")
                => /\ device /\ hasPermissions
                   /\ "CaptureButton" \in Rendered
          /\ \A s \in Statuses :
                (requestMicrophonePermission(s)
                    /\ cameraPermission = "denied" /\ s = "denied")
                   => /\ ~hasPermissions'
                      /\ "CaptureButton" \notin Rendered'
                      /\ "NoCameraFound" \in Rendered']_vars

\* With a rear device present and a permission denied, "No Camera Found" is
\* rendered, no capture control, and a gallery pick is in progress.
C12_Witness ==
    /\ devices = "back"
    /\ alert = "cancel"
    /\ "NoCameraFound" \in Rendered
    /\ "CaptureButton" \notin Rendered
    /\ \E p \in Pipes : pc[p] = "interpretPick"

\* C13 (as stated): with a rear device present and the permissions
\* unusable, what is on screen differs from what would be on screen with no
\* rear device and the permissions granted.
C13_RendersDistinctly ==
    (gatePc = "done" /\ device /\ ~hasPermissions)
        => Screen(TRUE, FALSE, alert) # Screen(FALSE, TRUE, "none")

\* C14 (as stated): exactly one of the busy indicator, the contact list,
\* the message text and the "No Camera Found" text is rendered.
C14_ExactlyOneOfFour ==
    Cardinality(Rendered \cap {"ActivityIndicator", "ContactRows",
                               "ProcessedText", "NoCameraFound"}) = 1

\* C14 (amended): exactly one of the busy indicator, the contact list and
\* the message text is rendered, each in its own state (Processing; not
\* Processing and found; not Processing and not found); independently of
\* them, exactly one of the camera view and the "No Camera Found" text is
\* rendered, the text exactly when no rear device is present or
\* hasPermissions is false.
C14_OnePerArea ==
    /\ Cardinality(Rendered \cap {"ActivityIndicator", "ContactRows",
                                  "ProcessedText"}) = 1
    /\ "ActivityIndicator" \in Rendered <=> isProcessingText
    /\ "ContactRows" \in Rendered <=> (~isProcessingText /\ cardIsFound)
    /\ "ProcessedText" \in Rendered <=> (~isProcessingText /\ ~cardIsFound)
    /\ Cardinality(Rendered \cap {"Camera", "NoCameraFound"}) = 1
    /\ "NoCameraFound" \in Rendered <=> ~(device /\ hasPermissions)

\* The contact list and the "No Camera Found" text are rendered together:
\* a gallery scan ended in Found on a host without a rear device.
C14_Witness ==
    /\ devices = "none"
    /\ AllIdle
    /\ {"ContactRows", "NoCameraFound"} \subseteq Rendered

\* C15: the permission gate runs once and never again: the microphone
\* request is issued only after the camera request resolved, hasPermissions
\* is false until both have resolved, it is written in that one step only,
\* and after an unusable outcome (the alert open, cancelled or sent to the
\* settings) nothing changes it.
C15_GateRunsOnce ==
    /\ [](/\ gatePc # "done" => (~hasPermissions /\ alert = "none")
          /\ gatePc = "requestMicrophone" <=> cameraPermission \in Statuses
          /\ alert # "none" => (gatePc = "done" /\ ~hasPermissions))
    /\ [][/\ gatePc' # gatePc
                => \/ gatePc = "requestCamera" /\ gatePc' = "requestMicrophone"
                   \/ gatePc = "requestMicrophone" /\ gatePc' = "done"
          /\ hasPermissions' # hasPermissions
                => gatePc = "requestMicrophone" /\ gatePc' = "done"
          /\ gatePc = "done"
                => /\ hasPermissions' = hasPermissions
                   /\ cameraPermission' = cameraPermission
          /\ alert # "none" => (alert' # "none" /\ ~hasPermissions')]_vars

\* After "Go to Settings" the gate is done, hasPermissions is false and a
\* scan from the gallery has run to its end.
C15_Witness ==
    /\ alert = "settings"
    /\ gatePc = "done"
    /\ ~hasPermissions
    /\ AllIdle
    /\ cardIsFound

\* C16: in the Found state the contact list has one row per key of
\* contactInfo, in the keys' order, each row with the key's values in their
\* order when there are any and with the single text "Undefined" when there
\* are none; {email: [a@x.com, b@x.com], phone: []} renders
\* email: a@x.com b@x.com and phone: Undefined.
C16_RowsFollowMapping ==
    (~isProcessingText /\ cardIsFound)
        => LET rows == ContactRows(contactInfo)
               at(k) == CHOOSE i \in 1..Len(FieldOrder) : FieldOrder[i] = k
           IN  /\ "ContactRows" \in Rendered
               /\ \A k \in Keys(contactInfo) :
                     Cardinality({i \in DOMAIN rows : rows[i].key = k}) = 1
               /\ \A i \in DOMAIN rows : rows[i].key \in Keys(contactInfo)
               /\ \A i, j \in DOMAIN rows :
                     i < j => at(rows[i].key) < at(rows[j].key)
               /\ \A i \in DOMAIN rows :
                     LET v == contactInfo[rows[i].key]
                     IN  IF v # << >>
                         THEN rows[i].values = v
                         ELSE rows[i].values = <<"Undefined">>
               /\ contactInfo = FieldValue
                     => rows = << [key |-> "email",
                                   values |-> <<"a@x.com", "b@x.com">>],
                                  [key |-> "phone",
                                   values |-> <<"Undefined">>] >>

\* The contact list of {email: [a@x.com, b@x.com], phone: []} is on display.
C16_Witness ==
    /\ ~isProcessingText
    /\ cardIsFound
    /\ AllIdle
    /\ contactInfo = FieldValue
    /\ Len(ContactRows(contactInfo)) = 2

\* C17: cardIsFound implies that contactInfo has at least one key, in every
\* state, between two setter calls and with overlapping pipelines included.
C17_FoundHasKey ==
    cardIsFound => Keys(contactInfo) # {}

\* Between the two setter calls of validateCard for an object with keys,
\* with a second pipeline in flight: contactInfo is written, cardIsFound is
\* still false.
C17_Witness ==
    \E p, q \in Pipes :
        /\ p # q
        /\ pc[p] = "setCardIsFound"
        /\ pc[q] \in PendingPcs
        /\ HasKeys(Payload(res[p]))
        /\ ~cardIsFound
        /\ contactInfo = Payload(res[p])

\* C18: once every pipeline has finished, the display is the outcome of the
\* interpretImage call that resolved last, whichever scan was triggered
\* last, and the initial message when no call has resolved; pipelines that
\* ended in a catch have changed nothing of it.
C18_LastResolvedIsShown ==
    AllIdle
        => Displayed = IF lastResolved.some
                       THEN Outcome(lastResolved.data)
                       ELSE Display("message", EmptyMapping, InitialText)

\* Two scans overlapped, the one triggered last resolved first with a
\* contact list, the older one resolved after it without keys, and both
\* have finished: the NotFound message of the older scan is on display.
C18_Witness ==
    /\ AllIdle
    /\ lastResolved.late
    /\ lastResolved.data = EmptyMapping
    /\ Keys(contactInfo) # {}
    /\ Displayed = Outcome(EmptyMapping)

\* C19 (as stated): taking each setter call as one step, in no state after
\* an interpretImage call has resolved is isProcessingText false with the
\* display still that of before the call, and in none is the new contact
\* info or message paired with the old cardIsFound: while the continuation
\* of the call runs, the display is the busy indicator or the outcome of the
\* call's result.
C19_DirectlyToNewResult ==
    \A p \in Pipes :
        pc[p] \in ContinuationPcs
            => \/ isProcessingText
               \/ Displayed = Outcome(Payload(res[p]))

====
